---- MODULE Spec2Model ----
(***************************************************************************)
(* Model of micropython_remote: the 433MHz capture utility (rx/__init__.py *)
(* class RX) and the transmitter (tx/__init__.py class TX, Pyboard branch: *)
(* the timer 5 callback chain of __call__ and the blocking send).          *)
(***************************************************************************)
EXTENDS Integers, Sequences, FiniteSets, TLC

(***************************************************************************)
(* Bounds of the model.                                                    *)
(***************************************************************************)
\* Longest gap sequence over GapVals handed to RX.process in SpecProcess.
MaxGaps == 8
\* Longest gap sequence over CleanVals handed to RX.process in SpecProcess.
MaxCleanGaps == 12
\* Longest gap sequence handed to RX.process run loop by loop (SpecSegment).
MaxSegGaps == 8
\* nedges of the RX instance in SpecRX (rx/__init__.py:14 defaults to 800).
NEdges == 8

\* Largest repeat count reps of the TX instance (tx/__init__.py:37).
MaxReps == 2

\* Gap durations (us) a capture may observe: a zero-length gap and two long
\* gaps; with a maximum of 9 or 8 both long gaps are >= round(0.8 * max),
\* with a maximum of 0 every gap is.
GapVals == {0, 8, 9}

\* Gap durations of a clean signal: one pulse width, one inter-frame gap
\* (with a maximum of 1 the pulse itself is >= round(0.8 * max) = 1).
CleanVals == {1, 9}

\* Keys of the code store.
Keys == {"on", "off"}

\* "No result" (Python None). A stored code is a non-empty list, so the
\* empty sequence is free to stand for None.
None == <<>>

\* Minimum number of frames, rx/__init__.py:62 and :80.
MinFrames == 5

\* tx/__init__.py:25.
STOP == 0

\* Modulus of an array('H') element (unsigned 16 bit), tx/__init__.py:56.
HalfWord == 65536

\* The store loaded by TX.__init__ (tx/__init__.py:40-41): a code of odd
\* length (one entry), a code of even length and a code whose durations
\* exceed 16 bits.
TXData ==
    [on  |-> <<100>>,
     off |-> <<400, 500>>,
     far |-> <<65536, 70000>>]

TXKeys == DOMAIN TXData

VARIABLES
    diffs,      \* RX.process: the gap sequence (argument diffs, as passed in)
    res,        \* RX.process: list of frames after segmentation
    length,     \* RX.process: selected frame length (0 = not selected)
    kept,       \* RX.process: frames of the selected length
    code,       \* RX.process: return value (averaged code or None)
    ssq,        \* RX.process: squares of the entries of s (line 85)
    work,       \* RX.process run loop by loop: diffs as left by the pops
    curlst,     \* RX.process run loop by loop: the frame under construction (lst)
    rpc,        \* position of the RX caller: "idle", "process", "return"
    key,        \* RX.__call__: key being captured
    data,       \* RX._data: key -> code (None = key absent)
    rop,        \* history: the latest inspection or deletion on the RX store
    active_high,\* TX._active_high (class attribute)
    reps,       \* TX._reps
    arr,        \* TX._arr: array('H') of asize entries, indexed from 0
    aptr,       \* TX._aptr
    pin,        \* level of TX._pin (0 or 1)
    tim,        \* timer 5: number of init() calls since the last deinit()
    mpc,        \* position of the caller of TX.__call__
    mkey,       \* TX.__call__: key
    x,          \* TX.__call__: x
    mp,         \* TX._cb called from __call__: _aptr as loaded by line 68
    fromIdle,   \* history: the current call began with no timer armed
    emitted,    \* history: entries handled by _cb since the pointer was last reset
    last,       \* history: what the latest execution of _cb did
    latency,    \* TX._latency
    outcome,    \* how the latest transmit request ended: "ok" or "KeyError"
    skey,       \* TX.send: key
    qlvl,       \* TX.send: q, the inactive level of the pin
    lvl,        \* TX.send: the level handed back by pin() at line 125
    si,         \* TX.send: number of durations slept so far
    sidle,      \* history: the current send began with no timer armed
    sent        \* history: the toggles and sleeps of the current send, kept
                \* for a send that began with no timer armed

rxvars == <<diffs, res, length, kept, code, ssq, work, curlst, rpc, key, data,
            rop>>
sendvars == <<skey, qlvl, lvl, si, sidle, sent>>
txvars == <<active_high, reps, arr, aptr, pin, tim, mpc, mkey, x, mp,
            fromIdle, emitted, last, latency, outcome, sendvars>>
vars == <<rxvars, txvars>>

(***************************************************************************)
(* Helpers: Python builtins used by the code.                              *)
(***************************************************************************)
Range(s) == {s[i] : i \in DOMAIN s}

\* max(seq) for a non-empty sequence.
Max(s) == CHOOSE m \in Range(s) : \A y \in Range(s) : y <= m

\* Python round(n / d) for n >= 0, d > 0: round half to even.
Round(n, d) ==
    LET q == n \div d
        r == n % d
    IN  IF 2 * r < d THEN q
        ELSE IF 2 * r > d THEN q + 1
        ELSE IF q % 2 = 0 THEN q ELSE q + 1

RECURSIVE SumSeq(_)
SumSeq(s) == IF s = <<>> THEN 0 ELSE Head(s) + SumSeq(Tail(s))

(***************************************************************************)
(* RX.process, rx/__init__.py:40-87.                                       *)
(***************************************************************************)
\* Line 42: gap = round(max(diffs) * 0.8).
Gap(d) == Round(8 * Max(d), 10)

\* Lines 44-46: diffs[0] raises IndexError when the list runs empty, which
\* happens exactly when no entry is >= gap.
HasGap(d, gap) == \E i \in DOMAIN d : d[i] >= gap

\* Mutant of DropLeading: line 46 (the pop of the first gap) is missing.
RECURSIVE DropLeadingKeepsGap(_, _)
DropLeadingKeepsGap(d, gap) ==
    IF d = <<>> THEN <<>>
    ELSE IF Head(d) < gap THEN DropLeadingKeepsGap(Tail(d), gap)
    ELSE d

\* Lines 44-46: pop while diffs[0] < gap, then pop the gap itself
\* (evaluated only when HasGap holds).
RECURSIVE DropLeading(_, _)
DropLeading(d, gap) ==
    IF d = <<>> THEN <<>>
    ELSE IF Head(d) < gap THEN DropLeading(Tail(d), gap)
    ELSE Tail(d)

\* Lines 49-58: the frame-building loop. lst is the frame under
\* construction, out the list of completed frames; IndexError (d empty)
\* breaks out of the loop and drops lst.
RECURSIVE BuildFrames(_, _, _, _)
BuildFrames(d, gap, lst, out) ==
    IF d = <<>> THEN out
    ELSE IF Head(d) < gap
         THEN BuildFrames(Tail(d), gap, Append(lst, Head(d)), out)
         ELSE BuildFrames(Tail(d), gap, <<>>, Append(out, Append(lst, Head(d))))

\* Lines 42-58 together.
Frames(d) == BuildFrames(DropLeading(d, Gap(d)), Gap(d), <<>>, <<>>)

\* Line 61.
Lengths(fr) == [i \in DOMAIN fr |-> Len(fr[i])]

\* Lines 66-68: d[l] = number of frames of length l.
Count(fr, l) == Cardinality({i \in DOMAIN fr : Len(fr[i]) = l})

\* Mutant of ModalLengths: the comparison with the maximal count is missing.
AnyLength(fr) == Range(Lengths(fr))

\* Lines 69-72: the loop over d.keys() stops at the first key whose count is
\* the maximum. d is built from set(lengths), whose iteration order is not
\* the order of the frames, so any length with the maximal count can be
\* the one found first.
ModalLengths(fr) ==
    {l \in Range(Lengths(fr)) :
        \A m \in Range(Lengths(fr)) : Count(fr, m) <= Count(fr, l)}

\* Line 75.
Retain(fr, l) == SelectSeq(fr, LAMBDA r : Len(r) = l)

\* Mutant of Mean: integer division instead of round().
MeanTruncated(fr, i) == SumSeq([j \in DOMAIN fr |-> fr[j][i]]) \div Len(fr)

\* Line 84 and 87: m = [round(sum(x)/cnt) for x in zip(*res)], then round
\* again (the identity on integers).
Mean(fr, i) == Round(SumSeq([j \in DOMAIN fr |-> fr[j][i]]), Len(fr))

Average(fr, l) == [i \in 1..l |-> Mean(fr, i)]

\* Mutant of SqDev: the deviations are taken from 0, not from m[i].
SqDevUncentred(fr, i, m) == SumSeq([j \in DOMAIN fr |-> fr[j][i] * fr[j][i]])

\* Line 85: s[i] = sqrt(sum([(y - m[i])**2 for y in x])); SqDev is the
\* argument of sqrt, so s[i] is its non-negative root. The sum is not
\* divided by cnt and m[i] is the rounded mean of line 84.
SqDev(fr, i, m) ==
    SumSeq([j \in DOMAIN fr |-> (fr[j][i] - m[i]) * (fr[j][i] - m[i])])

\* Lines 80-86: the squares of the entries of s; nothing is computed when
\* fewer than 5 frames are retained.
Deviations(kp, l) ==
    IF Len(kp) < MinFrames THEN <<>>
    ELSE [i \in 1..l |-> SqDev(kp, i, Average(kp, l))]

\* Mutant of Result: "cnt <= 5" instead of "cnt < 5" at line 80.
ResultOffByOne(kp, l) == IF Len(kp) <= MinFrames THEN None ELSE Average(kp, l)

\* Lines 80-87.
Result(kp, l) == IF Len(kp) < MinFrames THEN None ELSE Average(kp, l)

(***************************************************************************)
(* RX.__call__, rx/__init__.py:89-111, in two steps: the time critical     *)
(* sampling loop with the conversion to gaps, then process and the store.  *)
(***************************************************************************)
\* Gap sequences of exactly n entries.
GapSeqsOf(n) == [1..n -> GapVals]

\* Gap sequences handed to process in SpecProcess: every sequence over
\* GapVals up to MaxGaps entries and every longer one of a clean signal.
GapSeqs ==
    UNION ({GapSeqsOf(n) : n \in 1..MaxGaps}
           \cup {[1..n -> CleanVals] : n \in 1..MaxCleanGaps})

\* Mutant of Store: the result is stored without the test of line 107.
StoreAlways(d, k, c) == [d EXCEPT ![k] = c]

\* Lines 107-111.
Store(d, k, c) == IF c = None THEN d ELSE [d EXCEPT ![k] = c]

\* History record of an operation on the RX store: what was done, the key
\* and the value handed back (None with the "does not exist" message).
NoOp == [op |-> "none", key |-> "on", val |-> None]
StoreOp(o, k, v) == [op |-> o, key |-> k, val |-> v]

\* RX.keys(), line 30-31.
KeysOf(d) == {k \in DOMAIN d : d[k] # None}

\* Mutant of GetItem: an absent key is answered with a stored code.
GetItemSome(d, k) ==
    IF k \in KeysOf(d) THEN d[k]
    ELSE IF KeysOf(d) = {} THEN None ELSE d[CHOOSE j \in KeysOf(d) : TRUE]

\* RX.__getitem__, lines 22-25: the stored code, or the message
\* 'Key "..." does not exist' and None.
GetItem(d, k) == IF k \in KeysOf(d) THEN d[k] ELSE None

\* Mutant of DelKey: the whole store is cleared.
DelAll(d, k) == [j \in DOMAIN d |-> None]

\* RX.__delitem__, line 28, for a key that is present.
DelKey(d, k) == [d EXCEPT ![k] = None]

\* RX.show(key), lines 33-37: prints what __getitem__ hands back.
Show(k) ==
    /\ rpc = "idle"
    /\ rop' = StoreOp("show", k, GetItem(data, k))
    /\ UNCHANGED <<diffs, res, length, kept, code, ssq, work, curlst, rpc,
                   key, data>>
    /\ UNCHANGED txvars

\* del receiver[k], lines 27-28: del on a dict raises KeyError for an
\* absent key.
DelItem(k) ==
    /\ rpc = "idle"
    /\ IF k \in KeysOf(data)
       THEN /\ data' = DelKey(data, k)
            /\ rop' = StoreOp("del", k, None)
       ELSE /\ rop' = StoreOp("KeyError", k, None)
            /\ UNCHANGED data
    /\ UNCHANGED <<diffs, res, length, kept, code, ssq, work, curlst, rpc, key>>
    /\ UNCHANGED txvars

\* The file read by RX.load: it holds a code for one of the keys.
RXFile == [on |-> <<300, 900>>]

\* dict.update, line 116.
Update(d, f) == [k \in DOMAIN d |-> IF k \in DOMAIN f THEN f[k] ELSE d[k]]

\* RX.load(fname), lines 113-116, for a file that can be opened.
Load ==
    /\ rpc = "idle"
    /\ data' = Update(data, RXFile)
    /\ rop' = NoOp
    /\ UNCHANGED <<diffs, res, length, kept, code, ssq, work, curlst, rpc, key>>
    /\ UNCHANGED txvars

\* Lines 89-104: nedges edges are timed, nedges - 2 gaps are kept.
Sample(k) ==
    /\ rpc = "idle"
    /\ \E g \in GapSeqsOf(NEdges - 2) : diffs' = g
    /\ key' = k
    /\ rpc' = "process"
    /\ rop' = NoOp
    /\ UNCHANGED <<res, length, kept, code, ssq, work, curlst, data>>
    /\ UNCHANGED txvars

\* Lines 106-111 with the body of process (lines 40-87).
Process ==
    /\ rpc = "process"
    /\ IF ~HasGap(diffs, Gap(diffs))
       THEN \* IndexError at line 44 or 46 leaves process and __call__
            /\ res' = <<>>
            /\ length' = 0
            /\ kept' = <<>>
            /\ code' = None
            /\ ssq' = <<>>
       ELSE LET fr == Frames(diffs) IN
            /\ res' = fr
            /\ IF Len(fr) < MinFrames
               THEN /\ length' = 0
                    /\ kept' = <<>>
                    /\ code' = None
                    /\ ssq' = <<>>
               ELSE \E l \in ModalLengths(fr) :
                    /\ length' = l
                    /\ kept' = Retain(fr, l)
                    /\ code' = Result(Retain(fr, l), l)
                    /\ ssq' = Deviations(Retain(fr, l), l)
    /\ data' = Store(data, key, code')
    /\ rpc' = "return"
    /\ UNCHANGED <<diffs, work, curlst, key, rop>>
    /\ UNCHANGED txvars

\* __call__ returns: its locals go out of scope.
Return ==
    /\ rpc = "return"
    /\ rpc' = "idle"
    /\ diffs' = <<>>
    /\ res' = <<>>
    /\ length' = 0
    /\ kept' = <<>>
    /\ code' = None
    /\ ssq' = <<>>
    /\ UNCHANGED <<work, curlst, key, data, rop>>
    /\ UNCHANGED txvars

(***************************************************************************)
(* RX.process run loop by loop, rx/__init__.py:42-58: one step per         *)
(* evaluation of a loop condition, followed by lines 61-87 in one step.    *)
(***************************************************************************)
\* Mutant of Pop: the list is left as it is.
PopNothing(w) == w

\* diffs.pop(0), lines 45, 46, 54 and 55: the list after the pop.
Pop(w) == Tail(w)

\* Lines 44-46: one evaluation of "diffs[0] < gap". An empty list raises
\* IndexError, which leaves process; a small gap is popped (line 45); a
\* gap >= the threshold ends the loop and is popped by line 46.
Discard ==
    /\ rpc = "discard"
    /\ IF work = <<>>
       THEN rpc' = "raised" /\ UNCHANGED work
       ELSE /\ work' = Pop(work)
            /\ rpc' = IF Head(work) < Gap(diffs) THEN "discard" ELSE "frames"
    /\ UNCHANGED <<diffs, res, length, kept, code, ssq, curlst, key, data, rop>>
    /\ UNCHANGED txvars

\* Lines 50-58: one evaluation of "diffs[0] < gap". A small gap is moved to
\* lst (line 54); a gap >= the threshold is moved to lst (line 55) and the
\* frame is appended to res (line 58, then line 51); an empty list raises
\* IndexError, which breaks out of the outer loop and drops lst.
Frame ==
    /\ rpc = "frames"
    /\ IF work = <<>>
       THEN /\ rpc' = "select"
            /\ curlst' = <<>>
            /\ UNCHANGED <<work, res>>
       ELSE /\ work' = Pop(work)
            /\ rpc' = "frames"
            /\ IF Head(work) < Gap(diffs)
               THEN /\ curlst' = Append(curlst, Head(work))
                    /\ UNCHANGED res
               ELSE /\ res' = Append(res, Append(curlst, Head(work)))
                    /\ curlst' = <<>>
    /\ UNCHANGED <<diffs, length, kept, code, ssq, key, data, rop>>
    /\ UNCHANGED txvars

\* Lines 61-87 on the frames built by the loops.
Select ==
    /\ rpc = "select"
    /\ IF Len(res) < MinFrames
       THEN /\ length' = 0
            /\ kept' = <<>>
            /\ code' = None
            /\ ssq' = <<>>
       ELSE \E l \in ModalLengths(res) :
            /\ length' = l
            /\ kept' = Retain(res, l)
            /\ code' = Result(Retain(res, l), l)
            /\ ssq' = Deviations(Retain(res, l), l)
    /\ rpc' = "return"
    /\ UNCHANGED <<diffs, res, work, curlst, key, data, rop>>
    /\ UNCHANGED txvars

(***************************************************************************)
(* TX, tx/__init__.py, Pyboard branch (lines 52-57, 59-68, 104-112).       *)
(* __call__ runs in the main program, one step per shared-memory access;   *)
(* the timer interrupt runs _cb to completion and can preempt __call__     *)
(* between any two of its steps whenever the timer is armed.               *)
(***************************************************************************)
B2I(b) == IF b THEN 1 ELSE 0

\* Python's ^ on 0/1 values.
Xor(a, b) == (a + b) % 2

\* Line 43: max((sum(x) for x in self._data.values())).
MaxSum ==
    CHOOSE n \in {SumSeq(TXData[k]) : k \in TXKeys} :
        \A k \in TXKeys : SumSeq(TXData[k]) <= n

\* Mutant of Latency: the margin of two repetitions is missing.
LatencyNoMargin(r) == (r * MaxSum) \div 1000

\* Line 43: (reps + 2) * max(...) // 1000, an integer division.
Latency(r) == ((r + 2) * MaxSum) \div 1000

\* Line 55: max([len(x) for x in self._data.values()]).
MaxLen ==
    CHOOSE n \in {Len(TXData[k]) : k \in TXKeys} :
        \A k \in TXKeys : Len(TXData[k]) <= n

\* Line 55: asize.
ASize(r) == r * MaxLen + 1

\* Line 108: a store into array('H') keeps the low 16 bits.
HalfWordOf(t) == t % HalfWord

\* Lines 106-109: the value written at index i (from 0) of the buffer.
Entry(lst, i) == HalfWordOf(lst[(i % Len(lst)) + 1])

\* Mutant of CbPin: the parity of the index is inverted (p + 1 for p).
CbPinInverted(p, v, ah) ==
    IF v = STOP THEN Xor(B2I(ah), 1) ELSE Xor((p + 1) % 2, B2I(ah))

\* Line 64 and 66: the level _cb drives for entry v at index p.
CbPin(p, v, ah) ==
    IF v = STOP THEN Xor(B2I(ah), 1) ELSE Xor(p % 2, B2I(ah))

\* Mutant of CbTimer: the deinit of line 60 is missing.
CbTimerNoDeinit(t, v) == IF v = STOP THEN t ELSE t + 1

\* Lines 60, 63-67: the timer after _cb: deinit, then init unless v is STOP.
CbTimer(t, v) == IF v = STOP THEN 0 ELSE 1

\* History record of one execution of _cb.
NoCb == [what |-> "none", idx |-> 0, pol |-> TRUE]
CbStop(p, ah) == [what |-> "stop", idx |-> p, pol |-> ah]
CbEntry(p, ah) == [what |-> "entry", idx |-> p, pol |-> ah]
CbError(p, ah) == [what |-> "IndexError", idx |-> p, pol |-> ah]

\* Lines 86-88, 105: __call__(key) begins.
Call(k) ==
    /\ mpc = "idle"
    /\ mpc' = "fill"
    /\ mkey' = k
    /\ x' = 0
    /\ fromIdle' = (tim = 0)
    /\ outcome' = "ok"
    /\ UNCHANGED <<active_high, reps, arr, aptr, pin, tim, mp, emitted, last>>
    /\ UNCHANGED <<latency, sendvars>>
    /\ UNCHANGED rxvars

\* Lines 106-109: one pass of the inner loop.
Fill ==
    /\ mpc = "fill"
    /\ x < reps * Len(TXData[mkey])
    /\ arr' = [arr EXCEPT ![x] = Entry(TXData[mkey], x)]
    /\ x' = x + 1
    /\ UNCHANGED <<active_high, reps, aptr, pin, tim, mpc, mkey, mp,
                   fromIdle, emitted, last>>
    /\ UNCHANGED <<latency, outcome, sendvars>>
    /\ UNCHANGED rxvars

\* Line 110.
WriteStop ==
    /\ mpc = "fill"
    /\ x = reps * Len(TXData[mkey])
    /\ arr' = [arr EXCEPT ![x] = STOP]
    /\ mpc' = "reset"
    /\ UNCHANGED <<active_high, reps, aptr, pin, tim, mkey, x, mp,
                   fromIdle, emitted, last>>
    /\ UNCHANGED <<latency, outcome, sendvars>>
    /\ UNCHANGED rxvars

\* Line 111.
ResetPointer ==
    /\ mpc = "reset"
    /\ aptr' = 0
    /\ mpc' = "cb"
    /\ emitted' = <<>>
    /\ UNCHANGED <<active_high, reps, arr, pin, tim, mkey, x, mp,
                   fromIdle, last>>
    /\ UNCHANGED <<latency, outcome, sendvars>>
    /\ UNCHANGED rxvars

\* Line 112 with lines 60-67: _cb called from __call__. From deinit to init
\* the timer is off, so nothing can preempt.
MainCb ==
    /\ mpc = "cb"
    /\ IF aptr >= ASize(reps)
       THEN \* IndexError at line 62 leaves _cb and __call__
            /\ tim' = 0
            /\ last' = CbError(aptr, active_high)
            /\ mpc' = "idle"
            /\ x' = 0
            /\ UNCHANGED <<pin, emitted>>
       ELSE LET v == arr[aptr] IN
            /\ pin' = CbPin(aptr, v, active_high)
            /\ tim' = CbTimer(tim, v)
            /\ IF v = STOP
               THEN /\ last' = CbStop(aptr, active_high)
                    /\ mpc' = "idle"
                    /\ x' = 0
                    /\ UNCHANGED emitted
               ELSE /\ last' = CbEntry(aptr, active_high)
                    /\ mpc' = "inc_load"
                    /\ emitted' = Append(emitted,
                            [idx |-> aptr, level |-> pin', dur |-> v])
                    /\ UNCHANGED x
    /\ UNCHANGED <<active_high, reps, arr, aptr, mkey, mp, fromIdle>>
    /\ UNCHANGED <<latency, outcome, sendvars>>
    /\ UNCHANGED rxvars

\* Line 68 in the main program: self._aptr is loaded ...
IncLoad ==
    /\ mpc = "inc_load"
    /\ mp' = aptr
    /\ mpc' = "inc_store"
    /\ UNCHANGED <<active_high, reps, arr, aptr, pin, tim, mkey, x,
                   fromIdle, emitted, last>>
    /\ UNCHANGED <<latency, outcome, sendvars>>
    /\ UNCHANGED rxvars

\* ... and stored back incremented; __call__ returns and its locals go
\* out of scope.
IncStore ==
    /\ mpc = "inc_store"
    /\ aptr' = mp + 1
    /\ mpc' = "idle"
    /\ x' = 0
    /\ mp' = 0
    /\ UNCHANGED <<active_high, reps, arr, pin, tim, mkey,
                   fromIdle, emitted, last>>
    /\ UNCHANGED <<latency, outcome, sendvars>>
    /\ UNCHANGED rxvars

\* Lines 59-68 in the timer interrupt: the armed timer fires and _cb runs
\* to completion.
TimerFire ==
    /\ tim >= 1
    /\ IF aptr >= ASize(reps)
       THEN \* IndexError at line 62, after the deinit of line 60
            /\ tim' = 0
            /\ last' = CbError(aptr, active_high)
            /\ UNCHANGED <<pin, aptr, emitted>>
       ELSE LET v == arr[aptr] IN
            /\ pin' = CbPin(aptr, v, active_high)
            /\ tim' = CbTimer(tim, v)
            /\ IF v = STOP
               THEN /\ last' = CbStop(aptr, active_high)
                    /\ UNCHANGED <<aptr, emitted>>
               ELSE /\ last' = CbEntry(aptr, active_high)
                    /\ aptr' = aptr + 1
                    /\ emitted' = Append(emitted,
                            [idx |-> aptr, level |-> pin', dur |-> v])
    /\ UNCHANGED <<active_high, reps, arr, mpc, mkey, x, mp, fromIdle>>
    /\ UNCHANGED <<latency, outcome, sendvars>>
    /\ UNCHANGED rxvars

\* Lines 31-35: TX.active_low(), called by the main program.
ActiveLow ==
    /\ mpc = "idle"
    /\ active_high' = FALSE
    /\ UNCHANGED <<reps, arr, aptr, pin, tim, mpc, mkey, x, mp,
                   fromIdle, emitted, last>>
    /\ UNCHANGED <<latency, outcome, sendvars>>
    /\ UNCHANGED rxvars

\* Keys a request may name that the loaded store does not hold.
NoKeys == {"nokey"}

\* Lines 86-88 and 70-71: __call__(key) for a key that is not in the store.
\* self[key] raises KeyError before anything else is touched.
CallUnknown(k) ==
    /\ mpc = "idle"
    /\ k \notin TXKeys
    /\ outcome' = "KeyError in __call__"
    /\ UNCHANGED <<active_high, reps, arr, aptr, pin, tim, mpc, mkey, x, mp,
                   fromIdle, emitted, last, latency, sendvars>>
    /\ UNCHANGED rxvars

\* Lines 116-120 and 70-71: send(key) for a key that is not in the store.
\* self[key] raises KeyError at line 120; line 127 is not reached.
SendUnknown(k) ==
    /\ mpc = "idle"
    /\ k \notin TXKeys
    /\ outcome' = "KeyError in send"
    /\ UNCHANGED <<active_high, reps, arr, aptr, pin, tim, mpc, mkey, x, mp,
                   fromIdle, emitted, last, latency, sendvars>>
    /\ UNCHANGED rxvars

(***************************************************************************)
(* TX.send, tx/__init__.py:114-127: the blocking transmit. It runs in the  *)
(* main program; timer 5 is not masked, so a callback chain that is still  *)
(* running fires between its steps.                                        *)
(***************************************************************************)
\* Mutant of Toggle: the level read is written back.
ToggleStuck(l) == l

\* Line 125: the argument of pin(pin() ^ 1) for the level l that was read.
Toggle(l) == Xor(l, 1)

\* Lines 117-121: send(key) begins.
Send(k) ==
    /\ mpc = "idle"
    /\ mpc' = "send_rep"
    /\ skey' = k
    /\ qlvl' = Xor(B2I(active_high), 1)
    /\ si' = 0
    /\ sidle' = (tim = 0)
    /\ sent' = <<>>
    /\ outcome' = "ok"
    /\ UNCHANGED <<active_high, reps, arr, aptr, pin, tim, mkey, x, mp,
                   fromIdle, emitted, last, latency, lvl>>
    /\ UNCHANGED rxvars

\* Lines 122-123: a repetition begins with pin(q).
SendRep ==
    /\ mpc = "send_rep"
    /\ si < reps * Len(TXData[skey])
    /\ pin' = qlvl
    /\ mpc' = "send_read"
    /\ UNCHANGED <<active_high, reps, arr, aptr, tim, mkey, x, mp,
                   fromIdle, emitted, last, latency, outcome, sendvars>>
    /\ UNCHANGED rxvars

\* Line 125, the inner call pin().
SendRead ==
    /\ mpc = "send_read"
    /\ lvl' = pin
    /\ mpc' = "send_write"
    /\ UNCHANGED <<active_high, reps, arr, aptr, pin, tim, mkey, x, mp,
                   fromIdle, emitted, last, latency, outcome,
                   skey, qlvl, si, sidle, sent>>
    /\ UNCHANGED rxvars

\* Lines 125-126, the outer call pin(...) and sleep_us(t); the next
\* duration, the next repetition or the end of the loops follows.
SendWrite ==
    /\ mpc = "send_write"
    /\ pin' = Toggle(lvl)
    /\ lvl' = 0
    /\ sent' = IF sidle
               THEN Append(sent, [from |-> pin, level |-> pin',
                        dur |-> TXData[skey][(si % Len(TXData[skey])) + 1]])
               ELSE sent
    /\ si' = si + 1
    /\ mpc' = IF (si + 1) % Len(TXData[skey]) = 0 THEN "send_rep"
                                                  ELSE "send_read"
    /\ UNCHANGED <<active_high, reps, arr, aptr, tim, mkey, x, mp,
                   fromIdle, emitted, last, latency, outcome,
                   skey, qlvl, sidle>>
    /\ UNCHANGED rxvars

\* Line 127: pin(q) after the last repetition.
SendEnd ==
    /\ mpc = "send_rep"
    /\ si = reps * Len(TXData[skey])
    /\ pin' = qlvl
    /\ mpc' = "send_ret"
    /\ UNCHANGED <<active_high, reps, arr, aptr, tim, mkey, x, mp,
                   fromIdle, emitted, last, latency, outcome, sendvars>>
    /\ UNCHANGED rxvars

\* send returns to its caller: its locals go out of scope.
SendReturn ==
    /\ mpc = "send_ret"
    /\ mpc' = "idle"
    /\ skey' = "on"
    /\ qlvl' = 0
    /\ lvl' = 0
    /\ si' = 0
    /\ sidle' = TRUE
    /\ sent' = <<>>
    /\ UNCHANGED <<active_high, reps, arr, aptr, pin, tim, mkey, x, mp,
                   fromIdle, emitted, last, latency, outcome>>
    /\ UNCHANGED rxvars

(***************************************************************************)
(* Initial states and specifications.                                      *)
(***************************************************************************)
\* RX.__init__, rx/__init__.py:14-20.
InitRXVars ==
    /\ diffs = <<>>
    /\ res = <<>>
    /\ length = 0
    /\ kept = <<>>
    /\ code = None
    /\ ssq = <<>>
    /\ work = <<>>
    /\ curlst = <<>>
    /\ rpc = "idle"
    /\ key = "on"
    /\ data = [k \in Keys |-> None]
    /\ rop = NoOp

\* TX.__init__, tx/__init__.py:37-57, with reps drawn from R and the pin as
\* tx/get_pin.py:45 leaves it, at a level drawn from P.
InitTXVars(R, P) ==
    /\ active_high = TRUE
    /\ reps \in R
    /\ arr = [i \in 0..(ASize(reps) - 1) |-> 0]
    /\ aptr = 0
    /\ pin \in P
    /\ tim = 0
    /\ mpc = "idle"
    /\ mkey = "on"
    /\ x = 0
    /\ mp = 0
    /\ fromIdle = TRUE
    /\ emitted = <<>>
    /\ last = NoCb
    /\ latency = Latency(reps)
    /\ outcome = "ok"
    /\ skey = "on"
    /\ qlvl = 0
    /\ lvl = 0
    /\ si = 0
    /\ sidle = TRUE
    /\ sent = <<>>

InitRX == InitRXVars /\ InitTXVars({1}, {0})

NextRX ==
    \/ \E k \in Keys : Sample(k)
    \/ Process
    \/ Return
    \/ \E k \in Keys : Show(k)
    \/ \E k \in Keys : DelItem(k)

SpecRX == InitRX /\ [][NextRX]_vars

\* RX.process applied to every bounded gap sequence.
InitProcess ==
    /\ diffs \in GapSeqs
    /\ res = <<>>
    /\ length = 0
    /\ kept = <<>>
    /\ code = None
    /\ ssq = <<>>
    /\ work = <<>>
    /\ curlst = <<>>
    /\ rpc = "process"
    /\ key = "on"
    /\ data = [k \in Keys |-> None]
    /\ rop = NoOp
    /\ InitTXVars({1}, {0})

SpecProcess == InitProcess /\ [][Process]_vars

\* Gap sequences handed to process run loop by loop: those of a clean signal.
SegSeqs == UNION {[1..n -> CleanVals] : n \in 1..MaxSegGaps}

\* RX.process entered with every bounded gap sequence, line 42 done.
InitSegment ==
    /\ diffs \in SegSeqs
    /\ work = diffs
    /\ curlst = <<>>
    /\ res = <<>>
    /\ length = 0
    /\ kept = <<>>
    /\ code = None
    /\ ssq = <<>>
    /\ rpc = "discard"
    /\ key = "on"
    /\ data = [k \in Keys |-> None]
    /\ rop = NoOp
    /\ InitTXVars({1}, {0})

NextSegment ==
    \/ Discard
    \/ Frame
    \/ Select

\* The interpreter keeps executing process until it returns or raises.
SpecSegment == InitSegment /\ [][NextSegment]_vars /\ WF_vars(NextSegment)

InitTX == InitRXVars /\ InitTXVars(1..MaxReps, {0, 1})

NextTX ==
    \/ \E k \in TXKeys : Call(k)
    \/ Fill
    \/ WriteStop
    \/ ResetPointer
    \/ MainCb
    \/ IncLoad
    \/ IncStore
    \/ TimerFire
    \/ ActiveLow
    \/ \E k \in NoKeys : CallUnknown(k)
    \/ \E k \in NoKeys : SendUnknown(k)
    \/ \E k \in TXKeys : Send(k)
    \/ SendRep
    \/ SendRead
    \/ SendWrite
    \/ SendEnd
    \/ SendReturn

SpecTX == InitTX /\ [][NextTX]_vars

\* Requests by key on both stores: a receiver whose store is loaded,
\* inspected and edited, and a transmitter (reps = 1) asked to play stored
\* and unknown keys.
InitKeys == InitRXVars /\ InitTXVars({1}, {0})

NextKeys ==
    \/ Load
    \/ \E k \in Keys : Show(k)
    \/ \E k \in Keys : DelItem(k)
    \/ \E k \in NoKeys : CallUnknown(k)
    \/ \E k \in NoKeys : SendUnknown(k)
    \/ \E k \in TXKeys : Call(k)
    \/ Fill
    \/ WriteStop
    \/ ResetPointer
    \/ MainCb
    \/ IncLoad
    \/ IncStore
    \/ TimerFire

SpecKeys == InitKeys /\ [][NextKeys]_vars

Spec == SpecTX

(***************************************************************************)
(* Properties of the capture engine.                                       *)
(***************************************************************************)
AbsVal(n) == IF n < 0 THEN -n ELSE n

\* T = round(0.8 * max(d)): the integer nearest to 0.8 * max(d).
Threshold(d) == CHOOSE t \in 0..Max(d) : AbsVal(10 * t - 8 * Max(d)) <= 5

\* Indices of the gaps of d that are >= t.
Boundaries(d, t) == {i \in DOMAIN d : d[i] >= t}

\* The j-th smallest index of B, counted from 1.
Nth(B, j) == CHOOSE i \in B : Cardinality({b \in B : b <= i}) = j

RECURSIVE Flatten(_)
Flatten(ss) == IF ss = <<>> THEN <<>> ELSE Head(ss) \o Flatten(Tail(ss))

\* Largest number of frames sharing one length.
ModalCount(fr) ==
    IF fr = <<>> THEN 0
    ELSE LET n(l) == Len(SelectSeq(fr, LAMBDA r : Len(r) = l))
         IN  CHOOSE c \in {n(Len(fr[i])) : i \in DOMAIN fr} :
                \A i \in DOMAIN fr : n(Len(fr[i])) <= c

\* C1: for every non-empty sequence of non-negative gaps the frames are the
\* slices between consecutive gaps >= T = round(0.8 * max): everything up to
\* and including the first such gap is dropped, each frame is zero or more
\* gaps < T followed by exactly one gap >= T, trailing gaps are dropped, the
\* number of frames is (number of gaps >= T) - 1 and the frames concatenate
\* to a contiguous slice of the input.
C1_Segmentation ==
    rpc = "return" =>
        LET T == Threshold(diffs)
            B == Boundaries(diffs, T)
            n == Cardinality(B)
        IN  /\ n >= 1
            /\ Len(res) = n - 1
            /\ \A j \in 1..(n - 1) :
                /\ res[j] = SubSeq(diffs, Nth(B, j) + 1, Nth(B, j + 1))
                /\ res[j][Len(res[j])] >= T
                /\ \A i \in 1..(Len(res[j]) - 1) : res[j][i] < T
            /\ Flatten(res) = SubSeq(diffs, Nth(B, 1) + 1, Nth(B, n))

\* C1 witness: leading gaps and trailing gaps are dropped and frames of
\* different lengths are cut.
C1_Witness ==
    /\ rpc = "return"
    /\ Len(res) >= 2
    /\ diffs[1] < Threshold(diffs)
    /\ diffs[Len(diffs)] < Threshold(diffs)
    /\ \E i, j \in DOMAIN res : Len(res[i]) >= 2 /\ Len(res[j]) = 1

\* C2: process returns an averaged code if and only if at least 5 frames
\* have the modal frame length: fewer than 5 frames in total, or exactly 4
\* of the modal length, give no result; exactly 5 give a result.
C2_AcceptanceThreshold ==
    rpc = "return" =>
        /\ (code # None) <=> (ModalCount(res) >= 5)
        /\ Len(res) < 5 => code = None
        /\ ModalCount(res) = 4 => code = None
        /\ ModalCount(res) = 5 => code # None

\* C2 witness: exactly 5 frames of the modal length among more frames.
C2_Witness ==
    /\ rpc = "return"
    /\ ModalCount(res) = 5
    /\ Len(res) > 5
    /\ code # None

\* C3: a failed capture leaves the key -> code mapping as it was, also when
\* the key held a code before; a successful capture changes only the entry
\* of its key.
C3_FailedCaptureKeepsStore ==
    [][/\ (rpc = "process" /\ code' = None) => data' = data
       /\ rpc \in {"process", "return"} =>
            \A k \in Keys : data'[k] # data[k] =>
                /\ rpc = "process"
                /\ k = key
                /\ code' # None
                /\ data'[k] = code']_vars

\* C3 witness: a capture has failed for a key that holds an earlier code.
C3_Witness ==
    /\ rpc = "return"
    /\ code = None
    /\ data[key] # None

\* C9 as claimed: among equally frequent lengths the one of the earliest
\* frame is selected.
C9_FirstEncountered ==
    (rpc = "return" /\ length # 0) =>
        \E i \in DOMAIN res :
            /\ Len(res[i]) = length
            /\ \A j \in 1..(i - 1) :
                Len(SelectSeq(res, LAMBDA r : Len(r) = Len(res[j])))
                    < ModalCount(res)

\* C9 (amended): the selected length is one of the most frequent frame
\* lengths (not necessarily the one met first); every frame of another
\* length is discarded and the retained frames, in order, are exactly the
\* frames of the selected length.
C9_ModalSelection ==
    (rpc = "return" /\ Len(res) >= 5) =>
        LET idx == {m \in DOMAIN res : Len(res[m]) = length} IN
        /\ Cardinality(idx) = ModalCount(res)
        /\ Len(kept) = Cardinality(idx)
        /\ \A i \in DOMAIN kept : Len(kept[i]) = length /\ kept[i] = res[Nth(idx, i)]

\* C9 witness: two lengths are equally frequent and the selected one is not
\* the length of the earliest such frame.
C9_Witness ==
    /\ rpc = "return"
    /\ Len(res) >= 5
    /\ Len(res[1]) # length
    /\ Len(SelectSeq(res, LAMBDA r : Len(r) = Len(res[1]))) = ModalCount(res)
    /\ Len(kept) < Len(res)

\* C10: a returned code has the modal length L, and each element is the
\* integer nearest to the mean of the retained values at its position
\* (|cnt * result[i] - sum_i| <= cnt / 2), lies between their minimum and
\* maximum, and is a non-negative integer.
C10_RoundedMean ==
    (rpc = "return" /\ code # None) =>
        LET cnt == Len(kept) IN
        /\ Len(code) = length
        /\ \A i \in 1..length :
            LET col == {kept[j][i] : j \in DOMAIN kept}
                sum == SumSeq([j \in DOMAIN kept |-> kept[j][i]])
            IN  /\ 2 * AbsVal(cnt * code[i] - sum) <= cnt
                /\ \E lo, hi \in col : lo <= code[i] /\ code[i] <= hi
                /\ code[i] \in Nat

\* C10 witness: a code is returned whose mean at some position lies exactly
\* halfway between two integers and is rounded to the lower (even) one.
C10_Witness ==
    /\ rpc = "return"
    /\ code # None
    /\ \E i \in 1..length :
        LET sum == SumSeq([j \in DOMAIN kept |-> kept[j][i]])
        IN  2 * (Len(kept) * code[i] - sum) = -Len(kept)

\* C11: if the retained frames (at least 5) are element for element
\* identical, every per-position deviation is 0, so that the reported
\* quality sum(s)/len(s) is exactly 0, and the returned code equals that
\* frame element for element.
C11_IdenticalFramesIdentity ==
    (rpc = "return" /\ Len(kept) >= 5
        /\ \A j \in DOMAIN kept : kept[j] = kept[1]) =>
        /\ code = kept[1]
        /\ Len(ssq) = length
        /\ \A i \in DOMAIN ssq : ssq[i] = 0

\* C11 witness: a perfectly repeating capture of frames of several gaps,
\* with a frame of another length discarded.
C11_Witness ==
    /\ rpc = "return"
    /\ Len(kept) >= 5
    /\ Len(kept) < Len(res)
    /\ length >= 2
    /\ \A j \in DOMAIN kept : kept[j] = kept[1]
    /\ code = kept[1]
    /\ \A i \in DOMAIN ssq : ssq[i] = 0

\* C12: the square of the per-position term of the quality figure is the
\* population variance of that position's values across the cnt retained
\* frames, (1/cnt) * sum (value - mean_i)^2 with mean_i = sum_i / cnt;
\* multiplied out by cnt^3 to stay in the integers.
C12_PopulationStdDev ==
    (rpc = "return" /\ code # None) =>
        LET cnt == Len(kept) IN
        \A i \in 1..length :
            LET sum == SumSeq([j \in DOMAIN kept |-> kept[j][i]])
            IN  cnt * cnt * cnt * ssq[i] =
                    SumSeq([j \in DOMAIN kept |->
                        (cnt * kept[j][i] - sum) * (cnt * kept[j][i] - sum)])

\* C16: deleting an existing key k removes it from keys(), an inspection of
\* k then reports it as unknown (until a capture stores it again), and
\* every other key maps to exactly the sequence it mapped to before.
C16_KeyDeletion ==
    [][/\ (rop' # rop /\ rop'.op = "del") =>
            LET k == rop'.key IN
            /\ k \in KeysOf(data)
            /\ k \notin KeysOf(data')
            /\ GetItem(data', k) = None
            /\ \A j \in Keys \ {k} : data'[j] = data[j]
       /\ (rop' # rop /\ rop'.op = "show") =>
            /\ rop'.val = data[rop'.key]
            /\ (rop.op = "del" /\ rop.key = rop'.key) => rop'.val = None]_vars

\* C16 witness: a key that held a code has just been deleted and the other
\* key still holds its code.
C16_Witness ==
    /\ rop.op = "del"
    /\ rop.key \notin KeysOf(data)
    /\ \E j \in Keys \ {rop.key} : data[j] # None

\* C17: for every non-empty sequence of non-negative gaps RX.process
\* terminates: every pass of the leading-discard loop and of the
\* frame-building loop that finds a gap consumes exactly one gap, the
\* leading-discard loop never runs off the end of the list (a gap >=
\* round(0.8 * max) exists), and the call ends with no result or with an
\* averaged code built from the frames of the segmentation.
C17_SegmentationTerminates ==
    /\ [][(rpc \in {"discard", "frames"} /\ work # <<>>) =>
            (Len(work') = Len(work) - 1 /\ work' = Tail(work))]_vars
    /\ [](rpc # "raised")
    /\ [](rpc = "discard" => HasGap(work, Gap(diffs)))
    /\ <>(rpc = "return" /\ res = Frames(diffs)
            /\ (code = None \/ Len(code) >= 1))

\* C17 witness: the call has returned a code after leading gaps were
\* discarded and trailing gaps were dropped.
C17_Witness ==
    /\ rpc = "return"
    /\ code # None
    /\ work = <<>>
    /\ diffs[1] < Gap(diffs)
    /\ diffs[Len(diffs)] < Gap(diffs)
    /\ Len(diffs) = MaxSegGaps

(***************************************************************************)
(* Properties of the playback engine.                                      *)
(***************************************************************************)
\* Number of buffer entries of the transmission in progress.
CodeLen == reps * Len(TXData[mkey])

\* The code c concatenated r times.
RECURSIVE Repeat(_, _)
Repeat(c, r) == IF r = 0 THEN <<>> ELSE c \o Repeat(c, r - 1)

\* Levels of the two polarity modes.
ActiveLevel(pol) == IF pol THEN 1 ELSE 0
IdleLevel(pol) == IF pol THEN 0 ELSE 1

\* No callback is armed and no call is in progress.
Quiet == tim = 0 /\ mpc = "idle"

\* The latest call began with no timer armed and has reset the pointer:
\* emitted is the history of its transmission.
StartedFromIdle == fromIdle /\ mpc \notin {"fill", "reset"}

\* C4 (safety part): in a transmission started with no timer armed the
\* entries are handled at indices 0, 1, 2, ... : each callback on a
\* non-sentinel entry advances the index by exactly 1 in every interleaving
\* of the initiating call and the timer callbacks, and once the sentinel is
\* read no timer is left armed.
C4_IndexAdvancesByOne ==
    StartedFromIdle =>
        /\ \A i \in DOMAIN emitted : emitted[i].idx = i - 1
        /\ (last.what = "stop" /\ mpc = "idle") => tim = 0

\* C5: a transmission started after the previous one went idle stops
\* exactly at index reps * len(code), having scheduled exactly
\* reps * len(code) intervals, and never handles an entry at a higher index.
C5_StopsAtSentinel ==
    StartedFromIdle =>
        /\ \A i \in DOMAIN emitted : emitted[i].idx < CodeLen
        /\ (Quiet /\ last.what # "none") =>
            /\ last.what = "stop"
            /\ last.idx = CodeLen
            /\ Len(emitted) = CodeLen

\* C6: immediately before the transmission of a stored code c, buffer
\* positions 0 .. reps*len(c)-1 hold c concatenated reps times, each entry
\* equal to the stored duration, and position reps*len(c) holds 0.
C6_BufferConstruction ==
    mpc = "cb" =>
        /\ \A i \in 0..(CodeLen - 1) : arr[i] = Repeat(TXData[mkey], reps)[i + 1]
        /\ arr[CodeLen] = 0

\* The level the claim gives for the callback recorded in l; an execution
\* that raised IndexError has not driven the pin.
CbLevel(l, old) ==
    IF l.what = "entry"
    THEN IF l.idx % 2 = 0 THEN ActiveLevel(l.pol) ELSE IdleLevel(l.pol)
    ELSE IF l.what = "stop" THEN IdleLevel(l.pol) ELSE old

\* C7 as claimed: the callback drives the active level at even indices, the
\* idle level at odd indices and the idle level on the sentinel, and
\* whenever the chain is idle after a transmission the pin is at the idle
\* level of the configured polarity.
C7_IdleLevelWhenIdle ==
    /\ [][last' # last => pin' = CbLevel(last', pin)]_vars
    /\ []((Quiet /\ last.what = "stop" /\ emitted # <<>>) =>
            pin = IdleLevel(active_high))

\* C7 (amended): the callback drives the active level at even indices, the
\* idle level at odd indices and the idle level on the sentinel, each of
\* the polarity configured when the callback runs; so when a chain has
\* ended on its sentinel and nothing is in progress the pin is at the
\* configured idle level as long as the polarity has not been switched
\* since.
C7_PinFollowsCallback ==
    /\ [][last' # last => pin' = CbLevel(last', pin)]_vars
    /\ []((Quiet /\ last.what = "stop" /\ last.pol = active_high) =>
            pin = IdleLevel(active_high))

\* C7 witness: an active-low chain has driven marks low and spaces high and
\* has ended on its sentinel with the pin high.
C7_Witness ==
    /\ last.what = "stop"
    /\ ~last.pol
    /\ Quiet
    /\ pin = 1
    /\ \E i, j \in DOMAIN emitted :
        /\ emitted[i].idx % 2 = 0 /\ emitted[i].level = 0
        /\ emitted[j].idx % 2 = 1 /\ emitted[j].level = 1

LargestSum ==
    CHOOSE m \in {SumSeq(TXData[k]) : k \in TXKeys} :
        \A k \in TXKeys : SumSeq(TXData[k]) <= m

\* C13 as claimed: latency() is exactly (reps + 2) * M / 1000.
C13_LatencyExact == 1000 * latency = (reps + 2) * LargestSum

\* C13 (amended): latency() is the integer part of (reps + 2) * M / 1000,
\* M the largest sum of the durations of one stored code; it is fixed at
\* load, the same before and after any sequence of transmissions and
\* whatever key was or will be played.
C13_LatencyFixedAtLoad ==
    /\ 1000 * latency <= (reps + 2) * LargestSum
    /\ (reps + 2) * LargestSum < 1000 * (latency + 1)

\* C13 witness: a code other than the longest one has been transmitted to
\* its end.
C13_Witness ==
    /\ Quiet
    /\ last.what = "stop"
    /\ Len(emitted) = CodeLen
    /\ SumSeq(TXData[mkey]) < LargestSum
    /\ 1000 * latency <= (reps + 2) * LargestSum

\* C14: a transmit request, nonblocking or blocking, for a key that is not
\* in the store fails and leaves the pin, the buffer, the index pointer and
\* the timer as they were; an inspection of an absent key on the receiver
\* reports the key as unknown and leaves the store unchanged.
C14_UnknownKeyNoSideEffect ==
    [][/\ (outcome' # outcome /\ outcome' # "ok") =>
            /\ outcome' \in {"KeyError in __call__", "KeyError in send"}
            /\ UNCHANGED <<pin, arr, aptr, tim, active_high, mpc>>
       /\ (rop' # rop /\ rop'.op = "show" /\ rop'.key \notin KeysOf(data)) =>
            /\ rop'.val = None
            /\ data' = data]_vars

\* C14 witness: a blocking request for an unknown key has failed while a
\* chain was running, and an absent key of a non-empty receiver store has
\* been inspected.
C14_Witness ==
    /\ outcome = "KeyError in send"
    /\ tim = 1
    /\ pin = 1
    /\ aptr > 0
    /\ rop.op = "show"
    /\ rop.val = None
    /\ KeysOf(data) # {}

\* Positions of the caller inside send.
SendPcs == {"send_rep", "send_read", "send_write", "send_ret"}

\* C15 as claimed: send performs exactly reps * len(c) toggles, each
\* followed by the sleep of the corresponding duration in code order, and
\* on return the pin is at the idle level of the configured polarity.
C15_PinIdleOnReturn ==
    mpc = "send_ret" =>
        /\ pin = IdleLevel(active_high)
        /\ sidle => Len(sent) = reps * Len(TXData[skey])

\* C15 (amended): when no callback chain is in flight, send performs
\* exactly reps * len(c) toggles of the pin, each followed by the sleep of
\* the corresponding duration in code order, arms no timer, and has left
\* the pin at the idle level of the configured polarity when it returns.
C15_BlockingSend ==
    (mpc \in SendPcs /\ sidle) =>
        /\ tim = 0
        /\ \A i \in DOMAIN sent :
            /\ sent[i].level = 1 - sent[i].from
            /\ sent[i].dur = Repeat(TXData[skey], reps)[i]
        /\ Len(sent) = si
        /\ mpc = "send_ret" =>
            /\ Len(sent) = reps * Len(TXData[skey])
            /\ pin = IdleLevel(active_high)

\* C15 witness: an active-low send of an odd-length code, repeated, has
\* reached its end.
C15_Witness ==
    /\ mpc = "send_ret"
    /\ sidle
    /\ ~active_high
    /\ reps >= 2
    /\ Len(sent) = reps * Len(TXData[skey])
    /\ Len(TXData[skey]) % 2 = 1
    /\ pin = 1

\* The (level, duration) pairs of a history of callbacks or of toggles.
Wave(h) == [i \in DOMAIN h |-> [level |-> h[i].level, dur |-> h[i].dur]]

\* C18: when __call__ is invoked for a stored key while an earlier chain is
\* still running, then in every interleaving with the pending callback the
\* chain started by the call emits exactly the new code from index 0:
\* nothing of it is started before the initiating callback, every entry
\* 0 .. reps*len(code)-1 is handled exactly once, in order, with its stored
\* duration, and the chain then goes idle on the sentinel.
C18_RestartInFlight ==
    (~fromIdle /\ mpc \notin {"fill", "reset"}) =>
        /\ mpc = "cb" => emitted = <<>>
        /\ Len(emitted) <= CodeLen
        /\ \A i \in DOMAIN emitted :
            /\ emitted[i].idx = i - 1
            /\ i <= CodeLen => emitted[i].dur = Repeat(TXData[mkey], reps)[i]
        /\ (Quiet /\ last.what # "none") =>
            /\ last.what = "stop"
            /\ last.idx = CodeLen
            /\ Len(emitted) = CodeLen

\* C19: for a stored code and reps >= 1 the (level, duration) pairs of a
\* blocking send equal those of the callback chain for the same key under
\* the same polarity, every repetition begins with a mark in both, and both
\* end at the idle level.
C19_SameWaveform ==
    (/\ mpc = "send_ret" /\ sidle /\ skey = mkey
     /\ fromIdle /\ last.what = "stop"
     /\ \A i \in DOMAIN emitted :
            emitted[i].level = CbPin(emitted[i].idx, emitted[i].dur, active_high))
    =>  /\ Wave(sent) = Wave(emitted)
        /\ \A r \in 0..(reps - 1) :
            LET i == r * Len(TXData[skey]) + 1 IN
            /\ i \in DOMAIN sent => sent[i].level = ActiveLevel(active_high)
            /\ i \in DOMAIN emitted =>
                    emitted[i].level = ActiveLevel(active_high)
        /\ pin = IdleLevel(active_high)

\* C20: every write of a duration or of the sentinel and every read by the
\* callback is at an index within 0 .. asize-1, asize = reps * maxlen + 1,
\* and the index pointer never exceeds the position of the sentinel.
C20_AccessesInBounds ==
    /\ mpc = "fill" => x \in 0..(ASize(reps) - 1)
    /\ last.what # "IndexError"
    /\ aptr \in 0..(ASize(reps) - 1)
    /\ mpc \notin {"fill", "reset"} => aptr <= CodeLen

====
